---------------------------- MODULE Spec2Model ----------------------------
(***************************************************************************)
(* A model of kof-slide's two command line scripts:                        *)
(*   scripts/build-all.mjs  the batch flow (discover, select, build each   *)
(*                          deck with the renderer, write dist/index.html) *)
(*   the dev script         (unnamed/part_000) serve one deck              *)
(*                                                                         *)
(* Strings are sequences of one-character strings, so that the pattern     *)
(* matcher, the path building and the title extraction are computed on     *)
(* characters as the JavaScript does.                                      *)
(*                                                                         *)
(* The file system is a listing of slides/ whose entries are plain files   *)
(* or directories with their own listings.  Calls on it succeed (stat,     *)
(* readdir, mkdir, the write of the index), but for the read of an entry   *)
(* file, which may throw, and readdir of a path that is no directory.  The *)
(* renderer command can always be spawned; how it ends is free.            *)
(***************************************************************************)
EXTENDS Integers, Sequences, FiniteSets, TLC

(***************************************************************************)
(* Bounds of the model.                                                    *)
(***************************************************************************)
\* longest deck name handed to the matcher on its own
MaxNameLen == 3
\* longest pattern handed to the matcher on its own
MaxPatLen == 3

(***************************************************************************)
(* Characters.                                                             *)
(***************************************************************************)
LF == "\n"
\* ECMAScript LineTerminator code points, which `.` does not match without
\* the s flag (of them the model's alphabets hold the line feed only)
LineTerminators == {"\n", "\r"}
\* the characters of /[.*+?^${}()|[\]\\]/
RegexSpecials == {".", "*", "+", "?", "^", "$", "{", "}", "(", ")", "|", "[", "]", "\\"}

\* the strings over alphabet A of length lo..hi
Strings(A, lo, hi) == UNION {[1..n -> A] : n \in lo..hi}


RECURSIVE Join(_, _)
\* Array.prototype.join
Join(ss, sep) ==
    IF ss = <<>> THEN <<>>
    ELSE IF Len(ss) = 1 THEN ss[1]
    ELSE ss[1] \o sep \o Join(Tail(ss), sep)

RECURSIVE SplitFrom(_, _, _, _)
\* String.prototype.split(c) from position i on, cur being the piece so far
SplitFrom(s, c, i, cur) ==
    IF i > Len(s) THEN <<cur>>
    ELSE IF s[i] = c THEN <<cur>> \o SplitFrom(s, c, i + 1, <<>>)
    ELSE SplitFrom(s, c, i + 1, Append(cur, s[i]))

\* String.prototype.split on a one-character separator
Split(s, c) == SplitFrom(s, c, 1, <<>>)

\* String.prototype.includes for one character
Includes(s, c) == \E i \in 1..Len(s) : s[i] = c

\* String.prototype.startsWith
StartsWith(s, p) == Len(s) >= Len(p) /\ SubSeq(s, 1, Len(p)) = p

\* String.prototype.endsWith
EndsWith(s, p) == Len(s) >= Len(p) /\ SubSeq(s, Len(s) - Len(p) + 1, Len(s)) = p

(***************************************************************************)
(* The regular expressions build-all.mjs compiles: a source string is      *)
(* interpreted as ECMAScript does (no flags) for the constructs the        *)
(* matcher can emit: ^ and $ anchors, `.`, an escaped character, a         *)
(* literal, each optionally followed by * + or ?.                          *)
(***************************************************************************)
\* p.replace(/[.*+?^${}()|[\]\\]/g, '\\$&')
RECURSIVE EscapeRegex(_)
EscapeRegex(p) ==
    IF p = <<>> THEN <<>>
    ELSE (IF Head(p) \in RegexSpecials THEN <<"\\", Head(p)>> ELSE <<Head(p)>>)
         \o EscapeRegex(Tail(p))

\* whether the atom at re[k] (an escape, `.` or a literal) accepts character c
AtomAccepts(re, k, c) ==
    IF re[k] = "\\" THEN k + 1 <= Len(re) /\ re[k + 1] = c
    ELSE IF re[k] = "." THEN c \notin LineTerminators
    ELSE re[k] = c

\* the number of source characters of the atom at re[k]
AtomWidth(re, k) == IF re[k] = "\\" THEN 2 ELSE 1

RECURSIVE RegexMatchHere(_, _, _, _)
\* whether re[k..] matches s starting at position j (backtracking search)
RegexMatchHere(re, k, s, j) ==
    IF k > Len(re) THEN TRUE
    ELSE IF re[k] = "$" THEN j = Len(s) + 1 /\ RegexMatchHere(re, k + 1, s, j)
    ELSE IF re[k] = "^" THEN j = 1 /\ RegexMatchHere(re, k + 1, s, j)
    ELSE
      LET w == AtomWidth(re, k)
          q == IF k + w <= Len(re) THEN re[k + w] ELSE ""
          run(n) == \A m \in 0..(n - 1) : AtomAccepts(re, k, s[j + m])
          left == Len(s) - j + 1
      IN  IF q = "*" THEN
            \E n \in 0..left : run(n) /\ RegexMatchHere(re, k + w + 1, s, j + n)
          ELSE IF q = "+" THEN
            \E n \in 1..left : run(n) /\ RegexMatchHere(re, k + w + 1, s, j + n)
          ELSE IF q = "?" THEN
            \E n \in 0..(IF left >= 1 THEN 1 ELSE 0) :
                run(n) /\ RegexMatchHere(re, k + w + 1, s, j + n)
          ELSE left >= 1 /\ run(1) /\ RegexMatchHere(re, k + w, s, j + 1)

\* RegExp.prototype.test: a match starting anywhere in s
RegexTest(re, s) == \E j \in 1..(Len(s) + 1) : RegexMatchHere(re, 1, s, j)

(***************************************************************************)
(* build-all.mjs: the glob-ish matcher.                                    *)
(***************************************************************************)
\* the parts of the pattern between its stars, each escaped
EscapedParts(pattern) ==
    LET parts == Split(pattern, "*")
    IN  [n \in 1..Len(parts) |-> EscapeRegex(parts[n])]

\* the source of the RegExp of lines 25-32
PatternRegex(pattern) == <<"^">> \o Join(EscapedParts(pattern), <<".", "*">>) \o <<"$">>

\* matches(name, pattern)
matches(name, pattern) ==
    IF pattern = <<>> THEN TRUE
    ELSE IF Includes(pattern, "*") THEN RegexTest(PatternRegex(pattern), name)
    ELSE name = pattern

(***************************************************************************)
(* Paths and file names.                                                   *)
(***************************************************************************)
\* process.cwd(): some absolute directory
ROOT == <<"/", "w">>

\* path.join of a directory and one segment free of "/" and other than
\* "." and ".." (the only use the scripts make of it)
PathJoin(dir, seg) == dir \o <<"/">> \o seg

SLIDES_DIR == PathJoin(ROOT, <<"s", "l", "i", "d", "e", "s">>)

DIST_DIR == PathJoin(ROOT, <<"d", "i", "s", "t">>)

DotMd == <<".", "m", "d">>

SlidesMd == <<"s", "l", "i", "d", "e", "s">> \o DotMd

IndexMd == <<"i", "n", "d", "e", "x">> \o DotMd

DeckMd == <<"d", "e", "c", "k">> \o DotMd

PresentationMd == <<"p", "r", "e", "s", "e", "n", "t", "a", "t", "i", "o", "n">> \o DotMd

\* the value findEntry returns for a directory without an entry (null); no
\* file name is empty
NoEntry == <<>>

\* a change of findEntry: the candidates in alphabetical order
candidatesByName == <<DeckMd, IndexMd, PresentationMd, SlidesMd>>

\* const candidates = [...]
candidates == <<SlidesMd, IndexMd, DeckMd, PresentationMd>>

(***************************************************************************)
(* Entry resolution.  A directory is given by its listing `files`, the     *)
(* sequence of file names readdirSync returns; every listed name exists    *)
(* for existsSync (no dangling links).                                     *)
(***************************************************************************)
\* existsSync(join(deckPath, c))
ExistsIn(files, c) == \E n \in 1..Len(files) : files[n] = c

\* readdirSync(deckPath).filter((f) => f.endsWith('.md'))
MdFiles(files) == SelectSeq(files, LAMBDA f : EndsWith(f, DotMd))

\* md[0] ?? null
FirstOrNull(md) == IF md = <<>> THEN NoEntry ELSE md[1]

RECURSIVE FirstCandidate(_, _)
\* the for loop of findEntry from candidate k on: the first candidate that
\* exists, NoEntry when the loop falls through
FirstCandidate(files, k) ==
    IF k > Len(candidates) THEN NoEntry
    ELSE IF ExistsIn(files, candidates[k]) THEN candidates[k]
    ELSE FirstCandidate(files, k + 1)

\* findEntry(deckPath), of build-all.mjs
findEntry(files) ==
    IF FirstCandidate(files, 1) # NoEntry THEN FirstCandidate(files, 1)
    ELSE FirstOrNull(MdFiles(files))

(***************************************************************************)
(* The environment of a run.                                               *)
(***************************************************************************)
VARIABLES
    slidesExists,   \* whether ROOT/slides exists
    listing,        \* readdirSync(SLIDES_DIR): the entries of slides/, in order
    envOnly,        \* process.env.SLIDE_DECKS
    envSkip         \* process.env.SKIP_DECKS

VARIABLES
    argDeck,    \* process.argv[2] of the dev script
    envDeck,    \* process.env.DECK of the dev script
    devPc,      \* where the dev script stands
    devChild,   \* the renderer child of the dev script
    devStderr,  \* what the dev script printed with console.error, as tags
    devExited,  \* whether the dev script's process has exited
    devExitCode \* its exit status, once exited

devVars == <<argDeck, envDeck, devPc, devChild, devStderr, devExited, devExitCode>>

VARIABLES
    fnIn,       \* the arguments of a function that is applied on its own
    fnOut,      \* its result
    fnDone      \* whether it has been applied

fnVars == <<fnIn, fnOut, fnDone>>

\* an environment variable or argument: unset, or set to a string
Unset == [set |-> FALSE, value |-> <<>>]

EnvStr(s) == [set |-> TRUE, value |-> s]

\* process.env.X ?? ''
OrEmpty(v) == IF v.set THEN v.value ELSE <<>>

\* the WhiteSpace and LineTerminator characters String.prototype.trim strips
\* (those of the model's alphabets)
WhiteSpace == {" ", "\t", "\n", "\r"}

RECURSIVE TrimStart(_)
TrimStart(s) == IF s # <<>> /\ Head(s) \in WhiteSpace THEN TrimStart(Tail(s)) ELSE s

RECURSIVE TrimEnd(_)
TrimEnd(s) ==
    IF s # <<>> /\ s[Len(s)] \in WhiteSpace THEN TrimEnd(SubSeq(s, 1, Len(s) - 1)) ELSE s

\* String.prototype.trim
Trim(s) == TrimEnd(TrimStart(s))

\* (process.env.X ?? '').split(',').map((s) => s.trim()).filter(Boolean)
ParseList(v) ==
    LET parts == Split(OrEmpty(v), ",")
        trimmed == [n \in 1..Len(parts) |-> Trim(parts[n])]
    IN  SelectSeq(trimmed, LAMBDA t : t # <<>>)

\* ONLY (a reserved word of TLA+)
OnlyList == ParseList(envOnly)

SKIP == ParseList(envSkip)

\* a change of shouldSkip: a name an include pattern matches is never skipped
shouldSkipUnlessOnly(name) ==
    /\ \E n \in 1..Len(SKIP) : matches(name, SKIP[n])
    /\ ~(Len(OnlyList) > 0 /\ \E n \in 1..Len(OnlyList) : matches(name, OnlyList[n]))

\* SKIP.some((p) => matches(name, p))
shouldSkip(name) == \E n \in 1..Len(SKIP) : matches(name, SKIP[n])

\* ONLY.length === 0 || ONLY.some((p) => matches(name, p))
isOnly(name) == Len(OnlyList) = 0 \/ \E n \in 1..Len(OnlyList) : matches(name, OnlyList[n])

\* the names of the files of a directory entry, in listing order
FileNames(e) == [n \in 1..Len(e.files) |-> e.files[n].name]

\* a change of the filter of discoverDecks: the "_" test left out
IsDeckNoUnderscore(e) ==
    /\ e.isDir
    /\ ~StartsWith(e.name, <<".">>)
    /\ isOnly(e.name)
    /\ ~shouldSkip(e.name)
    /\ findEntry(FileNames(e)) # NoEntry

\* the callback of the filter of discoverDecks, on one entry of slides/
IsDeck(e) ==
    /\ e.isDir
    /\ ~StartsWith(e.name, <<".">>)
    /\ ~StartsWith(e.name, <<"_">>)
    /\ isOnly(e.name)
    /\ ~shouldSkip(e.name)
    /\ findEntry(FileNames(e)) # NoEntry

\* the deck object discoverDecks maps a retained entry to
DeckOf(e) ==
    [name |-> e.name, path |-> PathJoin(SLIDES_DIR, e.name), entry |-> findEntry(FileNames(e))]

\* a change of discoverDecks: the decks in the reverse of the listing order
discoverDecksReversed ==
    LET dirs == SelectSeq(listing, IsDeck)
    IN  [n \in 1..Len(dirs) |-> DeckOf(dirs[Len(dirs) + 1 - n])]

\* discoverDecks(), past the existence check of slides/
discoverDecks ==
    LET dirs == SelectSeq(listing, IsDeck)
    IN  [n \in 1..Len(dirs) |-> DeckOf(dirs[n])]

(***************************************************************************)
(* Title extraction (generateIndex).  A regular expression's captured      *)
(* group is a string; "no match" and the empty string are both falsy for   *)
(* the || of line 115, and both are the empty string here.                 *)
(***************************************************************************)
Falsy == <<>>

Or(a, b) == IF a # Falsy THEN a ELSE b

\* ^ under the m flag: the start of the input or just after a line terminator
IsLineStart(raw, p) == p = 1 \/ raw[p - 1] \in LineTerminators

RECURSIVE SkipWs(_, _)
\* the position where a greedy \s* starting at p stops
SkipWs(raw, p) ==
    IF p <= Len(raw) /\ raw[p] \in WhiteSpace THEN SkipWs(raw, p + 1) ELSE p

RECURSIVE LineEnd(_, _)
\* the position where a greedy .+ starting at u stops: the next line
\* terminator, or the end of the input
LineEnd(raw, u) ==
    IF u <= Len(raw) /\ raw[u] \notin LineTerminators THEN LineEnd(raw, u + 1) ELSE u

\* whether the literal lit stands at position q
HasAt(raw, q, lit) ==
    q + Len(lit) - 1 <= Len(raw) /\ SubSeq(raw, q, q + Len(lit) - 1) = lit

\* \s*(.+)\s*$ or \s+(.+)$ from position r on (lo: the least number of
\* characters \s must take), trimmed.  The greedy \s takes the whole run of
\* white space and (.+) the rest of that line; when the run reaches the end
\* of the input, backtracking can only capture white space, which trims to
\* the empty string
Captured(raw, r, lo) ==
    LET u == SkipWs(raw, r)
    IN  IF u <= Len(raw) /\ u >= r + lo THEN Trim(SubSeq(raw, u, LineEnd(raw, u) - 1))
        ELSE Falsy

TitleKey == <<"t", "i", "t", "l", "e", ":">>

\* raw.match(/^\s*title:\s*(.+)\s*$/m)?.[1]?.trim()
fmTitle(raw) ==
    LET at == {p \in 1..Len(raw) : IsLineStart(raw, p) /\ HasAt(raw, SkipWs(raw, p), TitleKey)}
        first == CHOOSE p \in at : \A o \in at : p <= o
    IN  IF at = {} THEN Falsy
        ELSE Captured(raw, SkipWs(raw, first) + Len(TitleKey), 0)

\* raw.match(/^#\s+(.+)$/m)?.[1]?.trim()
h1(raw) ==
    LET at == {p \in 1..Len(raw) :
                   /\ IsLineStart(raw, p)
                   /\ raw[p] = "#"
                   /\ p + 1 <= Len(raw)
                   /\ raw[p + 1] \in WhiteSpace}
        first == CHOOSE p \in at : \A o \in at : p <= o
    IN  IF at = {} THEN Falsy ELSE Captured(raw, first + 1, 1)

\* the entry of slides/ a deck was made from
DirOf(d) == CHOOSE n \in 1..Len(listing) : PathJoin(SLIDES_DIR, listing[n].name) = d.path

\* the file join(d.path, d.entry) of the file system
EntryFile(d) ==
    LET fs == listing[DirOf(d)].files
    IN  fs[CHOOSE n \in 1..Len(fs) : fs[n].name = d.entry]

\* title = fmTitle || h1 || d.name, for the text read and the deck's name
TitleFrom(raw, name) == Or(fmTitle(raw), Or(h1(raw), name))

\* a change of generateIndex: `let title;` without its initial value, so
\* that a failed read leaves no title
TitleOfNoDefault(d) ==
    IF ~EntryFile(d).readable THEN Falsy
    ELSE TitleFrom(EntryFile(d).raw, d.name)

\* the title generateIndex gives a deck: lines 110-116, the catch included
TitleOf(d) ==
    IF ~EntryFile(d).readable THEN d.name
    ELSE TitleFrom(EntryFile(d).raw, d.name)

\* `<li><a href="./${d.name}/">${title}</a></li>`, as the link it is
ItemOf(d) == [href |-> <<".", "/">> \o d.name \o <<"/">>, title |-> TitleOf(d)]

\* a change of generateIndex: the items in reverse order
IndexItemsReversed(ds) == [n \in 1..Len(ds) |-> ItemOf(ds[Len(ds) + 1 - n])]

\* the items of generateIndex(decks), one per deck, in the order of decks
IndexItems(ds) == [n \in 1..Len(ds) |-> ItemOf(ds[n])]

(***************************************************************************)
(* The batch flow: the state of one run of build-all.mjs.                  *)
(***************************************************************************)
VARIABLES
    pc,         \* where the async main function stands
    decks,      \* const decks = discoverDecks()
    deckIdx,    \* the position in decks of the for loop of main
    procs,      \* the renderer children spawned so far, in spawn order
    made,       \* the directories mkdirSync has been called for
    indexHtml,  \* dist/index.html as this run wrote it
    stdout,     \* what console.log printed, as tags
    stderr,     \* what console.error printed, as tags
    exited,     \* whether the process has exited
    exitCode    \* its exit status, once exited

batchVars == <<pc, decks, deckIdx, procs, made, indexHtml, stdout, stderr, exited, exitCode>>

envVars == <<slidesExists, listing, envOnly, envSkip>>

\* the exit code of a 'close' event of a child a signal ended (null)
NullCode == 0 - 1

\* the codes a renderer child can close with
CloseCodes == {0, 1, NullCode}

NotWritten == [written |-> FALSE, items |-> <<>>]

\* a change of buildDeck: the base path without its closing slash
BuildArgsOpenBase(d) ==
    [cmd    |-> "npx -y slidev build",
     entry  |-> d.entry,
     base   |-> <<"/">> \o d.name,
     out    |-> PathJoin(DIST_DIR, d.name),
     cwd    |-> d.path]

\* the arguments of the renderer for a deck: line 100
BuildArgs(d) ==
    [cmd    |-> "npx -y slidev build",
     entry  |-> d.entry,
     base   |-> <<"/">> \o d.name \o <<"/">>,
     out    |-> PathJoin(DIST_DIR, d.name),
     cwd    |-> d.path]

\* a change of run(): the 'close' handler tests `code ? reject : resolve`, so
\* that a null code resolves
PromiseNullResolves(proc) ==
    IF proc.state # "closed" THEN "pending"
    ELSE IF proc.code \in {0, NullCode} THEN "resolved"
    ELSE "rejected"

\* a change of run(): the 'close' handler resolves whatever the code
PromiseIgnoringCode(proc) ==
    IF proc.state # "closed" THEN "pending" ELSE "resolved"

\* a change of run(): the promise resolves once the child is spawned
PromiseResolvedAtSpawn(proc) == "resolved"

\* the promise run() returned for a child: settled by the 'close' handler
PromiseOf(proc) ==
    IF proc.state # "closed" THEN "pending"
    ELSE IF proc.code = 0 THEN "resolved"
    ELSE "rejected"

\* a change of the exits: process.exit() without its code
ExitNoCode(code) == exited' = TRUE /\ exitCode' = 0

\* process.exit(code)
Exit(code) == exited' = TRUE /\ exitCode' = code

\* main from its start to the for loop: discoverDecks (its process.exit
\* included), the empty check, the log and the mkdir of dist/
Discover ==
    /\ pc = "start" /\ ~exited
    /\ IF ~slidesExists
       THEN /\ stderr' = Append(stderr, <<"No slides/ directory found.">>)
            /\ Exit(1)
            /\ pc' = "exit"
            /\ UNCHANGED <<decks, deckIdx, made, stdout>>
       ELSE /\ decks' = discoverDecks
            /\ IF Len(discoverDecks) = 0
               THEN /\ stdout' = Append(stdout, <<"No decks found under slides/*">>)
                    /\ Exit(0)
                    /\ pc' = "exit"
                    /\ UNCHANGED <<deckIdx, made, stderr>>
               ELSE /\ stdout' = Append(stdout, <<"Found">>)
                    /\ made' = made \cup {DIST_DIR}
                    /\ deckIdx' = 1
                    /\ pc' = "loop"
                    /\ UNCHANGED <<stderr, exited, exitCode>>
    /\ UNCHANGED <<procs, indexHtml>>
    /\ UNCHANGED <<envVars, devVars, fnVars>>

\* one turn of the for loop: buildDeck(deck) up to the await of run(), the
\* spawn of the renderer included
BuildDeck ==
    /\ pc = "loop" /\ ~exited
    /\ deckIdx <= Len(decks)
    /\ stdout' = Append(stdout, <<"Building deck", decks[deckIdx].name>>)
    /\ made' = made \cup {PathJoin(DIST_DIR, decks[deckIdx].name)}
    /\ procs' = Append(procs, [deck |-> deckIdx, args |-> BuildArgs(decks[deckIdx]),
                               state |-> "running", code |-> 0,
                               outDirMade |-> PathJoin(DIST_DIR, decks[deckIdx].name) \in made'])
    /\ pc' = "await"
    /\ UNCHANGED <<decks, deckIdx, indexHtml, stderr, exited, exitCode>>
    /\ UNCHANGED <<envVars, devVars, fnVars>>

\* the renderer child k ends, with an exit code or by a signal
ChildExit(k, code) ==
    /\ ~exited
    /\ procs[k].state = "running"
    /\ procs' = [procs EXCEPT ![k].state = "exited", ![k].code = code]
    /\ UNCHANGED <<pc, decks, deckIdx, made, indexHtml, stdout, stderr, exited, exitCode>>
    /\ UNCHANGED <<envVars, devVars, fnVars>>

\* child.on('close', ...) of run(): the handler settles the promise; it runs
\* when the child has ended and no JavaScript is running
OnClose(k) ==
    /\ ~exited
    /\ pc = "await"
    /\ procs[k].state = "exited"
    /\ procs' = [procs EXCEPT ![k].state = "closed"]
    /\ UNCHANGED <<pc, decks, deckIdx, made, indexHtml, stdout, stderr, exited, exitCode>>
    /\ UNCHANGED <<envVars, devVars, fnVars>>

\* a change of the for loop: the position does not advance, so that the
\* same deck is built again
SameDeck(i) == i

\* for (const deck of decks): the position of the next deck
NextDeck(i) == i + 1

\* main resumes after `await buildDeck(deck)`: the next turn of the loop, or
\* the catch of main when run() rejected
Resume ==
    /\ pc = "await" /\ ~exited
    /\ PromiseOf(procs[Len(procs)]) # "pending"
    /\ IF PromiseOf(procs[Len(procs)]) = "resolved"
       THEN /\ stdout' = Append(stdout, <<"Built", decks[deckIdx].name>>)
            /\ deckIdx' = NextDeck(deckIdx)
            /\ pc' = "loop"
            /\ UNCHANGED <<stderr, exited, exitCode>>
       ELSE /\ stderr' = Append(stderr, <<"Build failed:", decks[deckIdx].name>>)
            /\ Exit(1)
            /\ pc' = "exit"
            /\ UNCHANGED <<stdout, deckIdx>>
    /\ UNCHANGED <<decks, procs, made, indexHtml>>
    /\ UNCHANGED <<envVars, devVars, fnVars>>

\* a change of generateIndex: no try/catch around readFileSync, so that a
\* failed read reaches the catch of main
GenerateIndexReadThrows ==
    /\ pc = "loop" /\ ~exited
    /\ deckIdx > Len(decks)
    /\ made' = made \cup {DIST_DIR}
    /\ IF \E n \in 1..Len(decks) : ~EntryFile(decks[n]).readable
       THEN /\ stderr' = Append(stderr, <<"Build failed:", <<>> >>)
            /\ Exit(1)
            /\ UNCHANGED <<indexHtml, stdout>>
       ELSE /\ indexHtml' = [written |-> TRUE, items |-> IndexItems(decks)]
            /\ stdout' = stdout \o << <<"Wrote dist/index.html">>, <<"All decks built.">> >>
            /\ Exit(0)
            /\ UNCHANGED stderr
    /\ pc' = "exit"
    /\ UNCHANGED <<decks, deckIdx, procs>>
    /\ UNCHANGED <<envVars, devVars, fnVars>>

\* main after the for loop: generateIndex(decks), the last log, and the end
\* of the process with nothing left to wait for (status 0)
GenerateIndex ==
    /\ pc = "loop" /\ ~exited
    /\ deckIdx > Len(decks)
    /\ made' = made \cup {DIST_DIR}
    /\ indexHtml' = [written |-> TRUE, items |-> IndexItems(decks)]
    /\ stdout' = stdout \o << <<"Wrote dist/index.html">>, <<"All decks built.">> >>
    /\ Exit(0)
    /\ pc' = "exit"
    /\ UNCHANGED <<decks, deckIdx, procs, stderr>>
    /\ UNCHANGED <<envVars, devVars, fnVars>>

(***************************************************************************)
(* The inputs of the runs the model explores.                              *)
(***************************************************************************)
\* the most entries slides/ holds
MaxEntries == 2

\* the names an entry of slides/ may have
EntryNames == {<<"a">>, <<"b", "a">>, <<"b", "b">>, <<".", "a">>, <<"_", "a">>}

File(name, raw) == [name |-> name, raw |-> raw, readable |-> TRUE]

\* a file whose read fails (a directory named like a file, a file without
\* read permission)
UnreadableFile(name) == [name |-> name, raw |-> <<>>, readable |-> FALSE]

\* "# H"
RawHeading == <<"#", " ", "H">>

\* "# H\ntitle: T"
RawTitled == <<"#", " ", "H", LF>> \o TitleKey \o <<" ", "T">>

\* "text"
RawPlain == <<"t", "e", "x", "t">>

\* what an entry of slides/ may be: a plain file, or a directory holding
\* no markdown file, canonical entries listed in another order than their
\* priority, other markdown files only, or an entry that cannot be read
EntryKinds ==
    { [isDir |-> FALSE, files |-> <<>>],
      [isDir |-> TRUE, files |-> <<File(<<"n", ".", "t", "x", "t">>, RawPlain)>>],
      [isDir |-> TRUE, files |-> <<File(IndexMd, RawHeading), File(SlidesMd, RawTitled)>>],
      [isDir |-> TRUE, files |-> <<File(<<"z">> \o DotMd, RawPlain), File(<<"a">> \o DotMd, RawHeading)>>],
      [isDir |-> TRUE, files |-> <<UnreadableFile(DeckMd)>>] }

Entry(name, kind) == [name |-> name, isDir |-> kind.isDir, files |-> kind.files]

\* the listings of slides/: up to MaxEntries entries of distinct names, in
\* any order
Listings ==
    UNION { { [n \in 1..len |-> Entry(ns[n], ks[n])] :
                ns \in {f \in [1..len -> EntryNames] :
                          \A x, y \in 1..len : x # y => f[x] # f[y]},
                ks \in [1..len -> EntryKinds] } : len \in 0..MaxEntries }

\* the values of SLIDE_DECKS: unset, "b*", " a , b*"
OnlyValues == {Unset, EnvStr(<<"b", "*">>), EnvStr(<<" ", "a", " ", ",", " ", "b", "*">>)}

\* the values of SKIP_DECKS: unset, "bb", "*a,"
SkipValues == {Unset, EnvStr(<<"b", "b">>), EnvStr(<<"*", "a", ",">>)}

\* the dev script and the functions applied on their own take no part
DevIdle ==
    /\ argDeck = Unset /\ envDeck = Unset
    /\ devPc = "idle" /\ devChild = [state |-> "none", code |-> 0, target |-> <<>>]
    /\ devStderr = <<>>
    /\ devExited = FALSE /\ devExitCode = 0

FnIdle == fnIn = <<>> /\ fnOut = <<>> /\ fnDone = FALSE

BatchStart ==
    /\ pc = "start" /\ decks = <<>> /\ deckIdx = 0 /\ procs = <<>> /\ made = {}
    /\ indexHtml = NotWritten /\ stdout = <<>> /\ stderr = <<>>
    /\ exited = FALSE /\ exitCode = 0

\* a file system: no slides/ at all, or one with a listing
InitFs ==
    /\ slidesExists \in BOOLEAN
    /\ listing \in (IF slidesExists THEN Listings ELSE {<<>>})

Init ==
    /\ InitFs
    /\ envOnly \in OnlyValues
    /\ envSkip \in SkipValues
    /\ BatchStart
    /\ DevIdle
    /\ FnIdle

Next ==
    \/ Discover
    \/ BuildDeck
    \/ \E k \in 1..Len(procs) : \E code \in CloseCodes : ChildExit(k, code)
    \/ \E k \in 1..Len(procs) : OnClose(k)
    \/ Resume
    \/ GenerateIndex

vars == <<envVars, batchVars, devVars, fnVars>>

Spec == Init /\ [][Next]_vars

(***************************************************************************)
(* The dev script (unnamed/part_000).                                      *)
(***************************************************************************)
\* a value of process.argv[2] or process.env.DECK as || sees it: undefined
\* and the empty string are both falsy
Truthy(v) == v.set /\ v.value # <<>>

\* const deckName = process.argv[2] || process.env.DECK
deckName == IF Truthy(argDeck) THEN argDeck.value ELSE OrEmpty(envDeck)

\* existsSync(deckPath), deckPath being join(SLIDES_DIR, deckName)
DeckPathExists ==
    slidesExists /\ \E n \in 1..Len(listing) : listing[n].name = deckName

\* the entry of slides/ at deckPath
DeckEntry == listing[CHOOSE n \in 1..Len(listing) : listing[n].name = deckName]

\* candidates.find((f) => existsSync(join(deckPath, f))), Falsy for undefined
devCandidate(files) ==
    LET found == SelectSeq(candidates, LAMBDA f : ExistsIn(files, f))
    IN  IF found = <<>> THEN Falsy ELSE found[1]

\* a change of the dev script: the last markdown file of the listing
devLastMd(files) ==
    LET md == SelectSeq(files, LAMBDA f : EndsWith(f, DotMd))
    IN  IF md = <<>> THEN Falsy ELSE md[Len(md)]

\* readdirSync(deckPath).find((f) => f.endsWith('.md')), Falsy for undefined
devFirstMd(files) ==
    LET md == SelectSeq(files, LAMBDA f : EndsWith(f, DotMd))
    IN  IF md = <<>> THEN Falsy ELSE md[1]

\* a change of the dev script: slides.md is taken when no entry is found
devEntryDefault(files) == Or(Or(devCandidate(files), devFirstMd(files)), SlidesMd)

\* the entry the dev script resolves for a directory listing (lines 21-31),
\* Falsy when it finds none and exits
devEntry(files) == Or(devCandidate(files), devFirstMd(files))

NoChild == [state |-> "none", code |-> 0, target |-> <<>>]

\* process.exit(code) of the dev script
DevExit(code) == devExited' = TRUE /\ devExitCode' = code

\* the exit status of process.exit(code) for the code of a 'close' event:
\* a null code leaves the default status, 0
ExitStatusOf(code) == IF code = NullCode THEN 0 ELSE code

\* the script from its first line to the spawn of line 35, or to the
\* process.exit(1) of a failed check; readdirSync of a deck path that is not
\* a directory throws, and the uncaught exception ends the process with 1
DevStart ==
    /\ devPc = "start" /\ ~devExited
    /\ IF deckName = Falsy
       THEN /\ devStderr' = Append(devStderr, <<"Please specify a deck name">>)
            /\ DevExit(1) /\ devPc' = "exit" /\ UNCHANGED devChild
       ELSE IF ~DeckPathExists
       THEN /\ devStderr' = Append(devStderr, <<"Deck folder not found">>)
            /\ DevExit(1) /\ devPc' = "exit" /\ UNCHANGED devChild
       ELSE IF devCandidate(FileNames(DeckEntry)) = Falsy /\ ~DeckEntry.isDir
       THEN /\ devStderr' = Append(devStderr, <<"Uncaught ENOTDIR">>)
            /\ DevExit(1) /\ devPc' = "exit" /\ UNCHANGED devChild
       ELSE IF devEntry(FileNames(DeckEntry)) = Falsy
       THEN /\ devStderr' = Append(devStderr, <<"No markdown entry file found">>)
            /\ DevExit(1) /\ devPc' = "exit" /\ UNCHANGED devChild
       ELSE /\ devChild' = [state |-> "running", code |-> 0,
                            target |-> PathJoin(PathJoin(SLIDES_DIR, deckName),
                                                devEntry(FileNames(DeckEntry)))]
            /\ devPc' = "serving"
            /\ UNCHANGED <<devStderr, devExited, devExitCode>>
    /\ UNCHANGED <<argDeck, envDeck>>
    /\ UNCHANGED <<envVars, batchVars, fnVars>>

\* the renderer child of the dev script ends, with an exit code or by a signal
DevChildExit(code) ==
    /\ ~devExited
    /\ devChild.state = "running"
    /\ devChild' = [devChild EXCEPT !.state = "exited", !.code = code]
    /\ UNCHANGED <<argDeck, envDeck, devPc, devStderr, devExited, devExitCode>>
    /\ UNCHANGED <<envVars, batchVars, fnVars>>

\* child.on('close', (code) => process.exit(code))
DevOnClose ==
    /\ ~devExited
    /\ devPc = "serving"
    /\ devChild.state = "exited"
    /\ devChild' = [devChild EXCEPT !.state = "closed"]
    /\ DevExit(ExitStatusOf(devChild.code))
    /\ devPc' = "exit"
    /\ UNCHANGED <<argDeck, envDeck, devStderr>>
    /\ UNCHANGED <<envVars, batchVars, fnVars>>

\* the values of process.argv[2]: none, and the names a deck may have or lack
ArgValues == {Unset} \cup {EnvStr(n) : n \in {<<"a">>, <<"b", "b">>}}

\* the values of process.env.DECK: unset, empty, a name
DeckValues == {Unset, EnvStr(<<>>), EnvStr(<<"b", "a">>)}

\* the batch flow takes no part
BatchIdle ==
    /\ pc = "idle" /\ decks = <<>> /\ deckIdx = 0 /\ procs = <<>> /\ made = {}
    /\ indexHtml = NotWritten /\ stdout = <<>> /\ stderr = <<>>
    /\ exited = FALSE /\ exitCode = 0
    /\ envOnly = Unset /\ envSkip = Unset

InitDev ==
    /\ InitFs
    /\ argDeck \in ArgValues
    /\ envDeck \in DeckValues
    /\ devPc = "start" /\ devChild = NoChild /\ devStderr = <<>>
    /\ devExited = FALSE /\ devExitCode = 0
    /\ BatchIdle
    /\ FnIdle

NextDev ==
    \/ DevStart
    \/ \E code \in CloseCodes : DevChildExit(code)
    \/ DevOnClose

SpecDev == InitDev /\ [][NextDev]_vars

(***************************************************************************)
(* The matcher and the entry resolution applied on their own, to every     *)
(* input of a bounded set.                                                 *)
(***************************************************************************)
\* the characters of the names and patterns handed to the matcher: letters,
\* the wildcard, a character special in regular expressions, a line feed
\* (a file name may hold any character but "/" and NUL)
MatchAlphabet == {"a", "b", ".", "*", LF}

\* matches(name, pattern) is evaluated
ApplyMatches ==
    /\ fnIn.op = "matches" /\ ~fnDone
    /\ fnOut' = matches(fnIn.name, fnIn.pattern)
    /\ fnDone' = TRUE
    /\ UNCHANGED fnIn
    /\ UNCHANGED <<envVars, batchVars, devVars>>

\* no file system, no run of either script
NoRun ==
    /\ slidesExists = FALSE /\ listing = <<>>
    /\ BatchIdle
    /\ DevIdle

InitMatch ==
    /\ fnIn \in { [op |-> "matches", name |-> n, pattern |-> q] :
                    n \in Strings(MatchAlphabet, 0, MaxNameLen),
                    q \in Strings(MatchAlphabet, 1, MaxPatLen) }
    /\ fnOut = FALSE
    /\ fnDone = FALSE
    /\ NoRun

SpecMatch == InitMatch /\ [][ApplyMatches]_vars

\* the most files a deck directory holds
MaxFiles == 3

\* the names of the files of a deck directory: the four canonical names,
\* other markdown files, a file that is no markdown file
DeckFileNames ==
    {SlidesMd, IndexMd, DeckMd, PresentationMd,
     <<"z">> \o DotMd, <<"a">> \o DotMd, <<"n", ".", "t", "x", "t">>}

\* the listings of a deck directory: distinct names, in any order
DeckListings ==
    UNION { {f \in [1..len -> DeckFileNames] : \A x, y \in 1..len : x # y => f[x] # f[y]} :
              len \in 0..MaxFiles }

\* both scripts resolve the entry of one directory
ApplyFindEntry ==
    /\ fnIn.op = "findEntry" /\ ~fnDone
    /\ fnOut' = [batch |-> findEntry(fnIn.files), dev |-> devEntry(fnIn.files)]
    /\ fnDone' = TRUE
    /\ UNCHANGED fnIn
    /\ UNCHANGED <<envVars, batchVars, devVars>>

InitEntry ==
    /\ fnIn \in { [op |-> "findEntry", files |-> f] : f \in DeckListings }
    /\ fnOut = [batch |-> NoEntry, dev |-> Falsy]
    /\ fnDone = FALSE
    /\ NoRun

SpecEntry == InitEntry /\ [][ApplyFindEntry]_vars

(***************************************************************************)
(* Properties.                                                             *)
(***************************************************************************)
RECURSIVE GlobFrom(_, _, _, _)
\* whether s[j..] is p[i..] with each star replaced by some run of
\* characters and every other character taken as itself
GlobFrom(p, i, s, j) ==
    IF i > Len(p) THEN j > Len(s)
    ELSE IF p[i] = "*" THEN \E n \in 0..(Len(s) - j + 1) : GlobFrom(p, i + 1, s, j + n)
    ELSE j <= Len(s) /\ s[j] = p[i] /\ GlobFrom(p, i + 1, s, j + 1)

\* C5: for every name and every non-empty pattern, matches(name, pattern)
\* is true exactly when the whole name is the pattern with each `*`
\* replaced by some possibly empty run of characters, every other character
\* standing for itself (so a pattern without `*` matches the identical name
\* only)
C5_PatternMatching ==
    fnDone => (fnOut <=> GlobFrom(fnIn.pattern, 1, fnIn.name, 1))

\* C5, for the names that hold no line terminator: the matcher agrees with
\* the glob reading of the pattern
C5_PatternMatchingOneLine ==
    (fnDone /\ \A n \in 1..Len(fnIn.name) : fnIn.name[n] \notin LineTerminators)
        => (fnOut <=> GlobFrom(fnIn.pattern, 1, fnIn.name, 1))

\* the position of the first element of seq that is in the set S, 0 if none
FirstIn(seq, S) ==
    IF \E n \in 1..Len(seq) : seq[n] \in S
    THEN CHOOSE n \in 1..Len(seq) : seq[n] \in S /\ \A m \in 1..(n - 1) : seq[m] \notin S
    ELSE 0

\* the four canonical entry names, in the priority order of the rule
CanonicalOrder == <<SlidesMd, IndexMd, DeckMd, PresentationMd>>

\* the entry the rule of the specification gives a directory listing: the
\* first canonical name, in priority order, that the directory holds; else
\* the first name of the listing that ends in .md; else none
RuleEntry(files) ==
    LET present == {files[n] : n \in 1..Len(files)}
        canon == FirstIn(CanonicalOrder, present)
        md == FirstIn(files, {f \in present : EndsWith(f, DotMd)})
    IN  IF canon # 0 THEN CanonicalOrder[canon]
        ELSE IF md # 0 THEN files[md]
        ELSE NoEntry

\* C6: for every directory content, both scripts resolve the first of
\* slides.md, index.md, deck.md, presentation.md that exists; if none of
\* the four exists, the first file ending in .md in listing order; and no
\* entry if the directory has no .md file
C6_EntryResolution ==
    fnDone => /\ fnOut.batch = RuleEntry(fnIn.files)
              /\ fnOut.dev = RuleEntry(fnIn.files)

\* C6 witness: a directory listing index.md before slides.md resolves to
\* slides.md
C6_Witness ==
    /\ fnDone
    /\ Len(fnIn.files) >= 2
    /\ fnIn.files[1] = IndexMd
    /\ fnIn.files[2] = SlidesMd
    /\ fnOut.batch = SlidesMd

\* the renderer children that ended with a code other than 0 (a signal
\* included), whether or not their 'close' has been handled yet
FailedProcs == {k \in 1..Len(procs) : procs[k].state # "running" /\ procs[k].code # 0}

\* C1: fail-fast: once the renderer of the deck at position k has closed
\* with a non-zero code, no renderer is spawned for a later deck,
\* dist/index.html is not written, and the run, once over, has exit status 1
C1_FailFast ==
    \A k \in FailedProcs :
        /\ Len(procs) = k
        /\ procs[k].deck = k
        /\ ~indexHtml.written
        /\ (exited => exitCode = 1)

\* C1 witness: the renderer of the first of two decks failed and the run is
\* over
C1_Witness ==
    /\ Len(decks) = 2
    /\ 1 \in FailedProcs
    /\ procs[1].state = "closed"
    /\ exited

\* C2: at most one renderer child is alive at any time: every child but the
\* last spawned has had its 'close' event handled
C2_OneChildAtATime ==
    /\ \A k \in 1..(Len(procs) - 1) : procs[k].state = "closed"
    /\ Cardinality({k \in 1..Len(procs) : procs[k].state = "running"}) <= 1

\* C2 witness: the renderer of the second deck is running
C2_Witness == Len(procs) = 2 /\ procs[2].state = "running"

\* an entry of slides/ the Locator takes for a deck: a directory, named
\* with neither a leading "." nor "_", holding a markdown file
Locatable(e) ==
    /\ e.isDir
    /\ e.name[1] \notin {".", "_"}
    /\ \E n \in 1..Len(e.files) : EndsWith(e.files[n].name, DotMd)

\* the retention rule of the Selector for a name
Retained(name) ==
    LET only == OnlyList
        skip == SKIP
    IN  /\ only = <<>> \/ \E n \in 1..Len(only) : matches(name, only[n])
        /\ \A n \in 1..Len(skip) : ~matches(name, skip[n])

\* the entries of slides/ that are to be built, in listing order
Kept == SelectSeq(listing, LAMBDA e : Locatable(e) /\ Retained(e.name))

\* whether a tag has been printed
Printed(log, tag) == \E n \in 1..Len(log) : log[n][1] = tag

\* C3: the exit status of the batch flow: 1 without any renderer and
\* without the "no decks" report when slides/ is missing; 0 without any
\* renderer and without an index when no deck matches; 1 when a build
\* failed; 0 with the index written when every deck built
C3_ExitStatus ==
    exited =>
        /\ ~slidesExists =>
              /\ exitCode = 1
              /\ procs = <<>>
              /\ ~Printed(stdout, "No decks found under slides/*")
              /\ ~indexHtml.written
        /\ (slidesExists /\ Kept = <<>>) =>
              /\ exitCode = 0
              /\ procs = <<>>
              /\ ~indexHtml.written
        /\ FailedProcs # {} => exitCode = 1
        /\ (slidesExists /\ Kept # <<>> /\ FailedProcs = {}) =>
              /\ exitCode = 0
              /\ indexHtml.written
              /\ Len(procs) = Len(decks)

\* C3 witness: slides/ has entries, none of them is a deck to build, and the
\* run is over
C3_Witness ==
    /\ exited
    /\ slidesExists
    /\ listing # <<>>
    /\ decks = <<>>
    /\ exitCode = 0

\* the names of the decks of the build set
DeckNames == {decks[n].name : n \in 1..Len(decks)}

\* C4: a candidate deck is in the build set if and only if (the include
\* list is empty or its name matches an include pattern) and its name
\* matches no exclude pattern
C4_RetentionRule ==
    (pc # "start" /\ slidesExists) =>
        \A n \in 1..Len(listing) :
            Locatable(listing[n]) => (listing[n].name \in DeckNames <=> Retained(listing[n].name))

\* C4 witness: a candidate whose name matches an include and an exclude
\* pattern is not in the build set
C4_Witness ==
    /\ pc # "start" /\ slidesExists
    /\ \E n \in 1..Len(listing) :
          /\ Locatable(listing[n])
          /\ \E i \in 1..Len(OnlyList) : matches(listing[n].name, OnlyList[i])
          /\ \E i \in 1..Len(SKIP) : matches(listing[n].name, SKIP[i])
          /\ listing[n].name \notin DeckNames

\* C7: with empty include and exclude lists the discovered decks are the
\* entries of slides/ that are directories, named with neither a leading
\* "." nor "_", and holding a markdown file; leaving a directory out prints
\* no error and does not fail the run
C7_Discovery ==
    (pc # "start" /\ slidesExists /\ OnlyList = <<>> /\ SKIP = <<>>) =>
        /\ \A n \in 1..Len(listing) : listing[n].name \in DeckNames <=> Locatable(listing[n])
        /\ DeckNames \subseteq {listing[n].name : n \in 1..Len(listing)}
        /\ FailedProcs = {} => stderr = <<>> /\ (exited => exitCode = 0)

\* C7 witness: a run that left out a directory without markdown file and
\* built a deck has ended with status 0
C7_Witness ==
    /\ OnlyList = <<>> /\ SKIP = <<>>
    /\ \E n \in 1..Len(listing) :
          /\ listing[n].isDir
          /\ listing[n].name[1] \notin {".", "_"}
          /\ ~Locatable(listing[n])
    /\ Len(decks) = 1
    /\ exited /\ exitCode = 0 /\ indexHtml.written

\* C8: whenever dist/index.html has been written, every deck of the build
\* set has had its renderer spawned and closed with exit code 0
C8_IndexAfterAllBuilt ==
    indexHtml.written =>
        /\ Len(procs) = Len(decks)
        /\ \A k \in 1..Len(decks) :
              /\ procs[k].deck = k
              /\ procs[k].args.entry = decks[k].entry
              /\ procs[k].state = "closed"
              /\ procs[k].code = 0

\* C8 witness: the index of a build set of two decks has been written
C8_Witness == indexHtml.written /\ Len(decks) = 2

\* C9: the written index holds exactly one link per deck of the build set,
\* to ./<deck-name>/, in discovery order, and no other link
C9_IndexLinks ==
    indexHtml.written =>
        /\ Len(indexHtml.items) = Len(Kept)
        /\ Len(Kept) > 0
        /\ \A n \in 1..Len(Kept) :
              indexHtml.items[n].href = <<".", "/">> \o Kept[n].name \o <<"/">>

\* C9 witness: an index of two links has been written
C9_Witness ==
    /\ indexHtml.written
    /\ Len(indexHtml.items) = 2
    /\ indexHtml.items[1].href # indexHtml.items[2].href

\* no deck name is given: neither the argument nor DECK holds a name
NoNameGiven ==
    /\ ~(argDeck.set /\ argDeck.value # <<>>)
    /\ ~(envDeck.set /\ envDeck.value # <<>>)

\* the deck name given, the argument first
GivenName == IF argDeck.set /\ argDeck.value # <<>> THEN argDeck.value ELSE envDeck.value

\* the directories of slides/ named as the deck name given
GivenDirs ==
    {n \in 1..Len(listing) : slidesExists /\ listing[n].isDir /\ listing[n].name = GivenName}

\* a configuration error of the dev flow: no deck name, no deck directory
\* of that name, or no markdown file in it
ConfigError ==
    \/ NoNameGiven
    \/ GivenDirs = {}
    \/ \E n \in GivenDirs :
          \A f \in 1..Len(listing[n].files) : ~EndsWith(listing[n].files[f].name, DotMd)

\* C10: on a configuration error the dev script exits with status 1 and
\* spawns no renderer
C10_DevConfigErrors ==
    (devPc # "start" /\ ConfigError) =>
        /\ devExited
        /\ devExitCode = 1
        /\ devChild.state = "none"

\* C10 witness: the deck directory named exists and holds no markdown
\* file; the dev script has exited
C10_Witness ==
    /\ devExited
    /\ ~NoNameGiven
    /\ GivenDirs # {}
    /\ \E n \in GivenDirs : listing[n].files # <<>>
    /\ ConfigError

\* C11: when the renderer child of the dev script has closed, the script
\* has exited with exactly the child's exit code, and with a code other
\* than 0 when a signal ended the child (a null code)
C11_DevExitCode ==
    devChild.state = "closed" =>
        /\ devExited
        /\ devChild.code # NullCode => devExitCode = devChild.code
        /\ devChild.code = NullCode => devExitCode # 0

\* C11, for the children that ended with an exit code: the dev script
\* exits with that code
C11_DevExitCodeMirrored ==
    (devChild.state = "closed" /\ devChild.code # NullCode) =>
        devExited /\ devExitCode = devChild.code

\* the phase of the batch flow's state machine a state is in
Phase ==
    IF exited THEN (IF exitCode = 0 THEN "Done" ELSE "Failed")
    ELSE IF pc = "start" THEN "Discovering"
    ELSE IF deckIdx <= Len(decks) THEN "Building"
    ELSE "IndexGenerating"

\* the deck being built in phase Building, 0 in the other phases
Building == IF Phase = "Building" THEN deckIdx ELSE 0

KeptFile(e) ==
    e.files[CHOOSE n \in 1..Len(e.files) : e.files[n].name = RuleEntry(FileNames(e))]

\* C13: a failed read of a deck's entry file is absorbed: that deck is
\* listed under its directory name, every other deck under the title
\* extracted from its own entry file, the index is written and the run
\* exits 0
C13_ReadFailureAbsorbed ==
    /\ (exited /\ slidesExists /\ Kept # <<>> /\ FailedProcs = {}) =>
          indexHtml.written /\ exitCode = 0
    /\ indexHtml.written =>
          LET kept == Kept
          IN  /\ Len(indexHtml.items) = Len(kept)
              /\ \A n \in 1..Len(kept) :
                    /\ indexHtml.items[n].href = <<".", "/">> \o kept[n].name \o <<"/">>
                    /\ indexHtml.items[n].title =
                          IF KeptFile(kept[n]).readable
                          THEN TitleFrom(KeptFile(kept[n]).raw, kept[n].name)
                          ELSE kept[n].name

\* C13 witness: the index lists a deck whose entry file could not be read
\* and a deck with a title of its own, and the run has exited with 0
C13_Witness ==
    /\ indexHtml.written
    /\ exited /\ exitCode = 0
    /\ Len(Kept) = 2
    /\ ~KeptFile(Kept[1]).readable
    /\ KeptFile(Kept[2]).readable
    /\ indexHtml.items[2].title # Kept[2].name

\* the position in the listing of slides/ of the entry of a name
ListingPos(name) == CHOOSE n \in 1..Len(listing) : listing[n].name = name

\* C14: the build set is a subsequence of the directory listing: it holds
\* the retained entries only, two of its decks stand in the order of the
\* listing, and the decks are built and listed in that order
C14_DiscoveryOrder ==
    (pc # "start" /\ slidesExists) =>
        /\ \A n \in 1..Len(decks) :
              \E m \in 1..Len(listing) :
                  /\ listing[m].name = decks[n].name
                  /\ Locatable(listing[m]) /\ Retained(listing[m].name)
        /\ \A i, j \in 1..Len(decks) :
              i < j => ListingPos(decks[i].name) < ListingPos(decks[j].name)
        /\ \A k \in 1..Len(procs) :
              procs[k].args.cwd = PathJoin(SLIDES_DIR, decks[k].name)
        /\ indexHtml.written =>
              \A n \in 1..Len(decks) :
                  indexHtml.items[n].href = <<".", "/">> \o decks[n].name \o <<"/">>

\* C14 witness: two decks that the listing does not hold in alphabetical
\* order were built and listed, the later-named one first
C14_Witness ==
    /\ indexHtml.written
    /\ Len(decks) = 2
    /\ decks[1].name = <<"b", "b">>
    /\ decks[2].name = <<"a">>
    /\ Len(procs) = 2

(***************************************************************************)
(* The Selector applied on its own, and applied again to its result.       *)
(***************************************************************************)
\* a change of the Selector: a loop over the names that starts at the
\* second one
SelectedFromSecond(names) ==
    SelectSeq(SubSeq(names, 2, Len(names)), LAMBDA nm : isOnly(nm) /\ ~shouldSkip(nm))

\* the names the filter of discoverDecks retains by its isOnly and
\* shouldSkip tests, in their order
Selected(names) == SelectSeq(names, LAMBDA nm : isOnly(nm) /\ ~shouldSkip(nm))

\* the names handed to the Selector
SelectorNames == EntryNames \cup {<<"b">>, <<"a", "b">>}

\* the selection is applied to a sequence of names, and to its own result
ApplySelector ==
    /\ fnIn.op = "select" /\ ~fnDone
    /\ fnOut' = [once |-> Selected(fnIn.names), twice |-> Selected(Selected(fnIn.names))]
    /\ fnDone' = TRUE
    /\ UNCHANGED fnIn
    /\ UNCHANGED <<envVars, batchVars, devVars>>

InitSelect ==
    /\ fnIn \in { [op |-> "select", names |-> ns] :
                    ns \in UNION { {f \in [1..len -> SelectorNames] :
                                      \A x, y \in 1..len : x # y => f[x] # f[y]} :
                                   len \in 0..MaxEntries } }
    /\ fnOut = [once |-> <<>>, twice |-> <<>>]
    /\ fnDone = FALSE
    /\ envOnly \in OnlyValues
    /\ envSkip \in SkipValues
    /\ slidesExists = FALSE /\ listing = <<>>
    /\ pc = "idle" /\ decks = <<>> /\ deckIdx = 0 /\ procs = <<>> /\ made = {}
    /\ indexHtml = NotWritten /\ stdout = <<>> /\ stderr = <<>>
    /\ exited = FALSE /\ exitCode = 0
    /\ DevIdle

SpecSelect == InitSelect /\ [][ApplySelector]_vars

\* C15: the Selector is idempotent: the selection applied to its own
\* result, with the same patterns, gives that result again
C15_SelectorIdempotent == fnDone => fnOut.twice = fnOut.once

\* C15 witness: a selection that dropped a name and kept another was
\* applied again
C15_Witness ==
    /\ fnDone
    /\ fnOut.once # <<>>
    /\ Len(fnOut.once) < Len(fnIn.names)
    /\ Len(OnlyList) > 0 /\ Len(SKIP) > 0

(***************************************************************************)
(* The title extraction applied on its own.                                *)
(***************************************************************************)
\* the most lines an entry document holds
MaxLines == 2

\* the lines of the entry documents: "title: T", "title:", "  title: U ",
\* "# H", "#", "#H", "x" and the empty line
DocLines ==
    { TitleKey \o <<" ", "T">>,
      TitleKey,
      <<" ", " ">> \o TitleKey \o <<" ", "U", " ">>,
      <<"#", " ", "H">>,
      <<"#">>,
      <<"#", "H">>,
      <<"x">>,
      <<>> }

\* title = fmTitle || h1 || d.name is evaluated for the text of a document
ApplyTitle ==
    /\ fnIn.op = "title" /\ ~fnDone
    /\ fnOut' = TitleFrom(Join(fnIn.lines, <<LF>>), fnIn.name)
    /\ fnDone' = TRUE
    /\ UNCHANGED fnIn
    /\ UNCHANGED <<envVars, batchVars, devVars>>

InitTitle ==
    /\ fnIn \in { [op |-> "title", lines |-> ls, name |-> <<"d">>] :
                    ls \in UNION {[1..n -> DocLines] : n \in 0..MaxLines} }
    /\ fnOut = <<>>
    /\ fnDone = FALSE
    /\ NoRun

SpecTitle == InitTitle /\ [][ApplyTitle]_vars

\* the value of a line `title: <value>`: the line, after leading white
\* space, starts with "title:" and the rest, trimmed, is not empty; the
\* empty string for any other line
TitleValue(line) ==
    LET l == TrimStart(line)
    IN  IF StartsWith(l, TitleKey) THEN Trim(SubSeq(l, Len(TitleKey) + 1, Len(l)))
        ELSE <<>>

\* the text of a level-1 heading `# <value>`: "#", white space, and a rest
\* that, trimmed, is not empty; the empty string for any other line
HeadingValue(line) ==
    IF Len(line) >= 2 /\ line[1] = "#" /\ line[2] \in WhiteSpace
    THEN Trim(SubSeq(line, 2, Len(line)))
    ELSE <<>>

\* the first non-empty value among those of the lines, the empty string if
\* there is none
FirstValue(vals) ==
    LET at == {n \in 1..Len(vals) : vals[n] # <<>>}
    IN  IF at = {} THEN <<>> ELSE vals[CHOOSE n \in at : \A m \in at : n <= m]

\* the title the rule gives a document: the value of its first title line,
\* else the text of its first level-1 heading, else the directory name
RuleTitle(lines, name) ==
    LET t == FirstValue([n \in 1..Len(lines) |-> TitleValue(lines[n])])
        h == FirstValue([n \in 1..Len(lines) |-> HeadingValue(lines[n])])
    IN  IF t # <<>> THEN t ELSE IF h # <<>> THEN h ELSE name

\* C16: for every entry document that can be read, the title is the value
\* of the first line `title: <value>` anywhere in the file, otherwise the
\* text of the first level-1 heading `# <value>`, otherwise the directory
\* name
C16_TitlePriority == fnDone => fnOut = RuleTitle(fnIn.lines, fnIn.name)

\* a line that opens a title or a heading and holds no value of its own
Valueless(line) ==
    \/ StartsWith(TrimStart(line), TitleKey) /\ TitleValue(line) = <<>>
    \/ line # <<>> /\ line[1] = "#" /\ Trim(SubSeq(line, 2, Len(line))) = <<>>

\* C16, for the documents whose title and heading lines all hold a value:
\* the title is the one the rule gives, a title line winning over a heading
\* that comes first
C16_TitlePriorityValued ==
    (fnDone /\ \A n \in 1..Len(fnIn.lines) : ~Valueless(fnIn.lines[n]))
        => fnOut = RuleTitle(fnIn.lines, fnIn.name)

\* <dist>/<deck-name>
OutDirOf(name) == DIST_DIR \o <<"/">> \o name

\* C17: the renderer of every deck is spawned in build mode with the
\* deck's resolved entry, the base path /<deck-name>/ and the output
\* directory <dist>/<deck-name>, and that directory has been created when
\* the renderer is spawned, whether or not the build fails later
C17_BuildInvocation ==
    (pc # "start" /\ slidesExists) =>
        LET kept == Kept
        IN  \A k \in 1..Len(procs) :
                /\ procs[k].args.cmd = "npx -y slidev build"
                /\ procs[k].args.entry = RuleEntry(FileNames(kept[k]))
                /\ procs[k].args.base = <<"/">> \o kept[k].name \o <<"/">>
                /\ procs[k].args.out = OutDirOf(kept[k].name)
                /\ procs[k].args.cwd = SLIDES_DIR \o <<"/">> \o kept[k].name
                /\ procs[k].outDirMade
                /\ OutDirOf(kept[k].name) \in made

\* C17 witness: the renderer of the second deck, spawned with its output
\* directory in place, closed with a failure
C17_Witness ==
    /\ Len(procs) = 2
    /\ procs[2].state = "closed" /\ procs[2].code # 0
    /\ procs[2].outDirMade
    /\ procs[1].args.out # procs[2].args.out

\* C18: no retries and strict order: the renderer is spawned at most once
\* per deck, in discovery order, and for a deck only when the renderers of
\* all decks before it have closed with exit code 0
C18_NoRetryInOrder ==
    /\ Len(procs) <= Len(decks)
    /\ \A k \in 1..Len(procs) :
          /\ procs[k].deck = k
          /\ procs[k].args.cwd = decks[k].path
          /\ \A j \in 1..(k - 1) :
                /\ procs[j].state = "closed" /\ procs[j].code = 0
                /\ procs[j].args.cwd # procs[k].args.cwd

\* C18 witness: the first deck's renderer closed with a failure and the
\* run ended with a single spawn for a build set of two decks
C18_Witness ==
    /\ exited
    /\ Len(decks) = 2
    /\ Len(procs) = 1
    /\ procs[1].state = "closed" /\ procs[1].code = 1

\* C19: the two scripts resolve entries identically: for every directory
\* listing the dev script and findEntry of the batch script select the same
\* file name, or both find no entry
C19_SameResolution ==
    fnDone =>
        /\ fnOut.batch = NoEntry <=> fnOut.dev = Falsy
        /\ fnOut.batch # NoEntry => fnOut.dev = fnOut.batch

\* C19 witness: both scripts fell back to the first markdown file of a
\* directory that holds two of them and no canonical entry
C19_Witness ==
    /\ fnDone
    /\ fnIn.files = <<<<"n", ".", "t", "x", "t">>, <<"z">> \o DotMd, <<"a">> \o DotMd>>
    /\ fnOut.dev = <<"z">> \o DotMd
    /\ fnOut.batch = <<"z">> \o DotMd

(***************************************************************************)
(* The batch flow under fair scheduling: main takes its next step when it  *)
(* can, every renderer child ends at some time, and the 'close' event of   *)
(* a child that ended is delivered.                                        *)
(***************************************************************************)
\* the step of main from the end of the for loop to the end of the process:
\* it is enabled exactly when GenerateIndex is, and a step of Next that
\* changes pc this way is a GenerateIndex step
IndexStep == pc = "loop" /\ ~exited /\ deckIdx > Len(decks) /\ pc' = "exit"

Fairness ==
    /\ WF_vars(Discover)
    /\ WF_vars(BuildDeck)
    /\ WF_vars(Resume)
    /\ WF_pc(IndexStep)
    /\ WF_vars(\E k \in 1..Len(procs) : \E code \in CloseCodes : ChildExit(k, code))
    /\ WF_vars(\E k \in 1..Len(procs) : OnClose(k))

\* the runs whose termination is explored: every file system of Init, with
\* SLIDE_DECKS and SKIP_DECKS unset (the lists only choose the build set, and
\* build sets of every length up to MaxEntries arise without them)
InitFair ==
    /\ InitFs
    /\ envOnly = Unset
    /\ envSkip = Unset
    /\ BatchStart
    /\ DevIdle
    /\ FnIdle

SpecFair == InitFair /\ [][Next]_vars /\ Fairness

\* C20: if every spawned renderer child closes at some time, every batch
\* run exits at some time (Done with status 0 or Failed with status 1),
\* after at most as many spawns as the build set has decks, and never
\* while a renderer child it spawned is still alive
C20_Termination ==
    /\ <>(exited /\ exitCode \in {0, 1})
    /\ [](Len(procs) <= Len(decks))
    /\ [](exited => \A k \in 1..Len(procs) : procs[k].state = "closed")

\* C20 witness: a run of two decks has exited after two spawns, both
\* children closed
C20_Witness ==
    /\ exited
    /\ Len(decks) = 2
    /\ Len(procs) = 2
    /\ \A k \in 1..2 : procs[k].state = "closed"

==========================================================================
